---- MODULE Spec2Model ----
(***************************************************************************)
(* Model of TbxMbEventTask (source/tbxmb_event.c): the event dispatcher    *)
(* and cooperative poller of MicroTBX-Modbus.  One invocation is split     *)
(* into its steps (lazy init, event wait, event routing, one step per      *)
(* visited list item of the poll sweep, wait-timeout adaptation) so that   *)
(* producers posting events can interleave with it.                        *)
(***************************************************************************)
EXTENDS Integers, Sequences, FiniteSets

(* ------------------------------ bounds -------------------------------- *)

\* Number of component contexts (handles 1..NumCtx) the application created.
NumCtx == 3

\* Capacity of the OSAL event queue.
MaxQueue == 2

\* Total number of events the producers post in one behaviour.
MaxPosts == 3

\* Number of list nodes the heap can hold: TbxListInsertItemBack fails at the
\* latest when the list holds this many nodes.
HeapNodes == 3

\* Number of list items one sweep is followed for (a sweep over a list that
\* holds a handle twice never ends).
MaxSweepSteps == 5

(* ------------------------- program constants -------------------------- *)

\* static const uint16_t defaultWaitTimeoutMs = 5000U;
defaultWaitTimeoutMs == 5000

\* The literal 1U of the conditional expression that sets waitTimeoutMS.
shortWaitTimeoutMs == 1

\* The NULL pointer.
NULL == 0

Contexts == 1..NumCtx

\* Event identifiers the switch statement tells apart; PDU_RECEIVED and
\* PDU_TRANSMITTED take the default branch.
EventIds == {"START_POLLING", "STOP_POLLING", "PDU_RECEIVED", "PDU_TRANSMITTED"}

\* tTbxMbEvent values a producer can post; the context may be NULL.
Events == [id : EventIds, context : Contexts \cup {NULL}]

\* tTbxMbEvent newEvent = { 0 };
ZeroEvent == [id |-> "START_POLLING", context |-> NULL]

\* The component contexts the application created.  Context c has a poll
\* function (pollFcn != NULL) when c is odd and a process function
\* (processFcn != NULL) when c is 0 or 1 modulo 4: context 1 has both
\* functions, context 2 has neither, context 3 has a poll function only and
\* a context 4 a process function only.
pollFcn == [c \in Contexts |-> c % 2 = 1]

processFcn == [c \in Contexts |-> c % 4 \in {0, 1}]

VARIABLES
  pollerList,            \* static pollerList: [null, items]
  pollerListInitialized, \* static pollerListInitialized
  waitTimeoutMS,         \* static waitTimeoutMS
  newEvent,              \* local newEvent
  listItem,              \* local listItem, the cursor of the sweep
  pc,                    \* position of the host loop / of the invocation
  queue,                 \* events pending in the OSAL event queue
  posted,                \* number of events posted so far
  waitLog,               \* TbxMbOsalEventWait calls of this invocation
  processLog,            \* processFcn calls of this invocation: [ctx, event]
  visitLog,              \* list items the sweep of this invocation visited
  pollLog,               \* pollFcn calls of this invocation: the argument passed
  lastLifecycle,         \* per context: last lifecycle event routed for it
  entryList,             \* pollerList as this invocation found it on entry
  assertLine             \* source line of the assertion that halted the program

vars == <<pollerList, pollerListInitialized, waitTimeoutMS,
          newEvent, listItem, pc, queue, posted, waitLog, processLog, visitLog,
          pollLog, lastLifecycle, entryList, assertLine>>

(* --------------------- MicroTBX linked list (tbxlist) ------------------ *)

\* Index of the first node that holds item, 0 when there is none.
ListFindNode(items, item) ==
  IF \E i \in 1..Len(items) : items[i] = item
  THEN CHOOSE i \in 1..Len(items) :
         items[i] = item /\ \A j \in 1..(i - 1) : items[j] /= item
  ELSE 0

\* TbxListInsertItemBack on success: a new node holding item is linked in at
\* the end; the list is not searched for item first.
TbxListInsertItemBack(list, item) ==
  [list EXCEPT !.items = Append(@, item)]

\* TbxListRemoveItem: unlinks the first node that holds item, if any.
TbxListRemoveItem(list, item) ==
  LET n == ListFindNode(list.items, item)
  IN IF list.null \/ n = 0 THEN list
     ELSE [list EXCEPT !.items =
             SubSeq(@, 1, n - 1) \o SubSeq(@, n + 1, Len(@))]

\* TbxListGetFirstItem: NULL for a NULL or empty list.
TbxListGetFirstItem(list) ==
  IF list.null \/ list.items = <<>> THEN NULL ELSE list.items[1]

\* TbxListGetNextItem: the item of the node after the first node holding
\* itemRef; the caller passes the item, not a node.
TbxListGetNextItem(list, itemRef) ==
  LET n == ListFindNode(list.items, itemRef)
  IN IF list.null \/ n = 0 \/ n = Len(list.items) THEN NULL
     ELSE list.items[n + 1]

\* TbxListGetSize: 0 for a NULL list.
TbxListGetSize(list) == IF list.null THEN 0 ELSE Len(list.items)

(* ------------------------------ Init ---------------------------------- *)

\* Variant of Init in which waitTimeoutMS is zero-initialised like the other
\* statics.
Init_ZeroTimeout ==
  /\ pollerList = [null |-> TRUE, items |-> <<>>]
  /\ pollerListInitialized = FALSE
  /\ waitTimeoutMS = 0
  /\ newEvent = ZeroEvent
  /\ listItem = NULL
  /\ pc = "idle"
  /\ queue = <<>>
  /\ posted = 0
  /\ waitLog = <<>>
  /\ processLog = <<>>
  /\ visitLog = <<>>
  /\ pollLog = <<>>
  /\ lastLifecycle = [c \in Contexts |-> "none"]
  /\ entryList = [null |-> TRUE, items |-> <<>>]
  /\ assertLine = 0

\* The statics as their initialisers leave them; no invocation has begun and
\* no event is pending.
Init ==
  /\ pollerList = [null |-> TRUE, items |-> <<>>]
  /\ pollerListInitialized = FALSE
  /\ waitTimeoutMS = defaultWaitTimeoutMs
  /\ newEvent = ZeroEvent
  /\ listItem = NULL
  /\ pc = "idle"
  /\ queue = <<>>
  /\ posted = 0
  /\ waitLog = <<>>
  /\ processLog = <<>>
  /\ visitLog = <<>>
  /\ pollLog = <<>>
  /\ lastLifecycle = [c \in Contexts |-> "none"]
  /\ entryList = [null |-> TRUE, items |-> <<>>]
  /\ assertLine = 0

(* -------------------- OSAL event queue (tbxmb_osal) -------------------- *)

\* TbxMbOsalEventWait(&event, timeoutMs): hands out the oldest pending event
\* and returns TBX_TRUE, or returns TBX_FALSE when none is pending (at once
\* without an RTOS, after timeoutMs with one).
TbxMbOsalEventWait(q) ==
  IF q /= <<>>
  THEN [result |-> TRUE, event |-> Head(q), queue |-> Tail(q)]
  ELSE [result |-> FALSE, event |-> ZeroEvent, queue |-> q]

\* TbxMbOsalEventPost: a producer (another task, an interrupt, a hook of a
\* component) appends an event to the queue.
Post(e) ==
  /\ posted < MaxPosts
  /\ Len(queue) < MaxQueue
  /\ queue' = Append(queue, e)
  /\ posted' = posted + 1
  /\ UNCHANGED <<pollerList, pollerListInitialized,
                 waitTimeoutMS, newEvent, listItem, pc, waitLog, processLog,
                 visitLog, pollLog, lastLifecycle, entryList, assertLine>>

(* -------------------- the steps of TbxMbEventTask ---------------------- *)

\* The dispatcher posts no event; the list found on entry is recorded once.
Frame == UNCHANGED <<posted, entryList>>

\* tTbxMbEventCtx.pollFcn != NULL for the context an opaque pointer refers to.
HasPollFcn(ctx) == ctx \in Contexts /\ pollFcn[ctx]

\* tTbxMbEventCtx.processFcn != NULL for the context an opaque pointer refers to.
HasProcessFcn(ctx) == ctx \in Contexts /\ processFcn[ctx]

\* End of the routing: void * listItem = TbxListGetFirstItem(pollerList);
ToSweep(list) ==
  /\ pc' = "sweep"
  /\ listItem' = TbxListGetFirstItem(list)

\* TBX_ASSERT(cond) with cond false, first outcome: the assertion handler
\* does not return (the default handler loops forever).
AssertHalts(line) ==
  /\ pc' = "halted"
  /\ assertLine' = line
  /\ UNCHANGED listItem

\* TBX_ASSERT(cond) with cond false, second outcome: the handler returns, or
\* assertions are compiled out, and the statement after it is executed.
AssertReturns == UNCHANGED assertLine

\* Entry of TbxMbEventTask: tTbxMbEvent newEvent = { 0 }; nothing has been
\* called yet in this invocation.
Enter ==
  /\ pc = "idle"
  /\ newEvent' = ZeroEvent
  /\ UNCHANGED <<waitLog, processLog, visitLog, pollLog>>

\* if (pollerListInitialized == TBX_FALSE) is false: nothing to initialise.
InitSkip ==
  /\ Enter
  /\ pollerListInitialized
  /\ pc' = "wait"
  /\ UNCHANGED <<pollerList, pollerListInitialized, waitTimeoutMS, listItem,
                 queue, lastLifecycle, assertLine>>
  /\ Frame

\* First invocation, TbxListCreate() returns a list.
InitCreate ==
  /\ Enter
  /\ ~pollerListInitialized
  /\ pollerListInitialized' = TRUE
  /\ pollerList' = [null |-> FALSE, items |-> <<>>]
  /\ pc' = "wait"
  /\ UNCHANGED <<waitTimeoutMS, listItem, queue, lastLifecycle, assertLine>>
  /\ Frame

\* First invocation, TbxListCreate() returns NULL (heap exhausted):
\* TBX_ASSERT(pollerList != NULL) fails.
InitCreateFails ==
  /\ Enter
  /\ ~pollerListInitialized
  /\ pollerListInitialized' = TRUE
  /\ pollerList' = [null |-> TRUE, items |-> <<>>]
  /\ \/ AssertHalts(96)
     \/ AssertReturns /\ pc' = "wait" /\ UNCHANGED listItem
  /\ UNCHANGED <<waitTimeoutMS, queue, lastLifecycle>>
  /\ Frame

\* Variant of EventWait in which an invocation without an event returns at
\* once, without the sweep and without setting the wait timeout.
EventWait_ReturnsOnTimeout ==
  /\ pc = "wait"
  /\ LET w == TbxMbOsalEventWait(queue)
     IN /\ waitLog' = Append(waitLog,
                        [timeoutMs |-> waitTimeoutMS, result |-> w.result,
                         event |-> w.event])
        /\ newEvent' = w.event
        /\ queue' = w.queue
        /\ pc' = IF w.result THEN "route" ELSE "done"
  /\ UNCHANGED <<pollerList, pollerListInitialized, waitTimeoutMS, listItem,
                 processLog, visitLog, pollLog, lastLifecycle, assertLine>>
  /\ Frame

\* if (TbxMbOsalEventWait(&newEvent, waitTimeoutMS) == TBX_TRUE): with an
\* event the routing follows, without one the sweep starts.
EventWait ==
  /\ pc = "wait"
  /\ LET w == TbxMbOsalEventWait(queue)
     IN /\ waitLog' = Append(waitLog,
                        [timeoutMs |-> waitTimeoutMS, result |-> w.result,
                         event |-> w.event])
        /\ newEvent' = w.event
        /\ queue' = w.queue
        /\ IF w.result
           THEN pc' = "route" /\ UNCHANGED listItem
           ELSE pc' = "sweep" /\ listItem' = TbxListGetFirstItem(pollerList)
  /\ UNCHANGED <<pollerList, pollerListInitialized, waitTimeoutMS, processLog,
                 visitLog, pollLog, lastLifecycle, assertLine>>
  /\ Frame

\* Variant of ContextValid without the check.
ContextValid_Unchecked(event) == TRUE

\* if (newEvent.context != NULL)
ContextValid(event) == event.context /= NULL

\* Variant of RouteStartPolling that adds the context at the front of the list.
RouteStartPolling_InsertsFront(list, event) ==
  [list EXCEPT !.items = <<event.context>> \o @]

\* case TBX_MB_EVENT_ID_START_POLLING, insertion succeeded.
RouteStartPolling(list, event) == TbxListInsertItemBack(list, event.context)

\* Variant of RouteStopPolling that unlinks the front node when no node
\* holds the context.
RouteStopPolling_UnlinksFront(list, event) ==
  IF ListFindNode(list.items, event.context) = 0 /\ list.items /= <<>>
  THEN [list EXCEPT !.items = Tail(@)]
  ELSE TbxListRemoveItem(list, event.context)

\* case TBX_MB_EVENT_ID_STOP_POLLING
RouteStopPolling(list, event) == TbxListRemoveItem(list, event.context)

\* Variant of RouteProcess that calls processFcn without the NULL check.
RouteProcess_NoNullCheck(event) ==
  <<[ctx |-> event.context, event |-> event]>>

\* Variant of RouteProcess that hands the process function a zeroed event.
RouteProcess_ZeroedEvent(event) ==
  IF HasProcessFcn(event.context)
  THEN <<[ctx |-> event.context, event |-> ZeroEvent]>>
  ELSE <<>>

\* default: the calls made to process functions, each with its argument.
RouteProcess(event) ==
  IF HasProcessFcn(event.context)
  THEN <<[ctx |-> event.context, event |-> event]>>
  ELSE <<>>

\* The last lifecycle event routed for each context, after routing event.
Lifecycle(event) ==
  IF event.context \in Contexts /\ event.id = "START_POLLING"
  THEN [lastLifecycle EXCEPT ![event.context] = "start"]
  ELSE IF event.context \in Contexts /\ event.id = "STOP_POLLING"
  THEN [lastLifecycle EXCEPT ![event.context] = "stop"]
  ELSE lastLifecycle

\* TBX_ASSERT(newEvent.context != NULL) fails; if execution goes on, the
\* if statement skips the switch.
RouteNullContext ==
  /\ pc = "route"
  /\ ~ContextValid(newEvent)
  /\ \/ AssertHalts(106)
     \/ AssertReturns /\ ToSweep(pollerList)
  /\ UNCHANGED <<pollerList, pollerListInitialized, waitTimeoutMS, newEvent,
                 queue, waitLog, processLog, visitLog, pollLog, lastLifecycle>>
  /\ Frame

\* START_POLLING, TbxListInsertItemBack returns TBX_OK.
RouteStart ==
  /\ pc = "route"
  /\ ContextValid(newEvent)
  /\ newEvent.id = "START_POLLING"
  /\ ~pollerList.null
  /\ Len(pollerList.items) < HeapNodes
  /\ pollerList' = RouteStartPolling(pollerList, newEvent)
  /\ lastLifecycle' = Lifecycle(newEvent)
  /\ ToSweep(RouteStartPolling(pollerList, newEvent))
  /\ UNCHANGED <<pollerListInitialized, waitTimeoutMS, newEvent, queue,
                 waitLog, processLog, visitLog, pollLog, assertLine>>
  /\ Frame

\* START_POLLING, TbxListInsertItemBack returns TBX_ERROR (no list, or no
\* memory for the node): TBX_ASSERT(insertResult == TBX_OK) fails.
RouteStartFails ==
  /\ pc = "route"
  /\ ContextValid(newEvent)
  /\ newEvent.id = "START_POLLING"
  /\ lastLifecycle' = Lifecycle(newEvent)
  /\ \/ AssertHalts(121)
     \/ AssertReturns /\ ToSweep(pollerList)
  /\ UNCHANGED <<pollerList, pollerListInitialized, waitTimeoutMS, newEvent,
                 queue, waitLog, processLog, visitLog, pollLog>>
  /\ Frame

\* STOP_POLLING
RouteStop ==
  /\ pc = "route"
  /\ ContextValid(newEvent)
  /\ newEvent.id = "STOP_POLLING"
  /\ pollerList' = RouteStopPolling(pollerList, newEvent)
  /\ lastLifecycle' = Lifecycle(newEvent)
  /\ ToSweep(RouteStopPolling(pollerList, newEvent))
  /\ UNCHANGED <<pollerListInitialized, waitTimeoutMS, newEvent, queue,
                 waitLog, processLog, visitLog, pollLog, assertLine>>
  /\ Frame

\* default
RouteDefault ==
  /\ pc = "route"
  /\ ContextValid(newEvent)
  /\ newEvent.id \notin {"START_POLLING", "STOP_POLLING"}
  /\ processLog' = processLog \o RouteProcess(newEvent)
  /\ ToSweep(pollerList)
  /\ UNCHANGED <<pollerList, pollerListInitialized, waitTimeoutMS, newEvent,
                 queue, waitLog, visitLog, pollLog, lastLifecycle, assertLine>>
  /\ Frame

\* Variant of PollItem that calls pollFcn without the NULL check.
PollItem_NoNullCheck(item) == <<item>>

\* The pollFcn calls made for one list item, each with its argument.
PollItem(item) == IF HasPollFcn(item) THEN <<item>> ELSE <<>>

\* One pass of the while (listItem != NULL) loop.
SweepStep ==
  /\ pc = "sweep"
  /\ listItem /= NULL
  /\ Len(visitLog) < MaxSweepSteps
  /\ visitLog' = Append(visitLog, listItem)
  /\ pollLog' = pollLog \o PollItem(listItem)
  /\ listItem' = TbxListGetNextItem(pollerList, listItem)
  /\ UNCHANGED <<pollerList, pollerListInitialized, waitTimeoutMS, newEvent,
                 pc, queue, waitLog, processLog, lastLifecycle, assertLine>>
  /\ Frame

\* A pass of the while (listItem != NULL) loop beyond the MaxSweepSteps passes
\* the record keeps: the loop goes on, the record does not grow.
SweepOn ==
  /\ pc = "sweep"
  /\ listItem /= NULL
  /\ Len(visitLog) >= MaxSweepSteps
  /\ listItem' = TbxListGetNextItem(pollerList, listItem)
  /\ UNCHANGED <<pollerList, pollerListInitialized, waitTimeoutMS, newEvent,
                 pc, queue, waitLog, processLog, visitLog, pollLog,
                 lastLifecycle, assertLine>>
  /\ Frame

\* Variant of NextWaitTimeout that compares the size with 1.
NextWaitTimeout_OffByOne(list) ==
  IF TbxListGetSize(list) > 1 THEN shortWaitTimeoutMs ELSE defaultWaitTimeoutMs

\* waitTimeoutMS = (TbxListGetSize(pollerList) > 0U) ? 1U : defaultWaitTimeoutMs;
NextWaitTimeout(list) ==
  IF TbxListGetSize(list) > 0 THEN shortWaitTimeoutMs ELSE defaultWaitTimeoutMs

\* The loop has ended: the wait timeout is set and the function is at its end.
AdaptTimeout ==
  /\ pc = "sweep"
  /\ listItem = NULL
  /\ waitTimeoutMS' = NextWaitTimeout(pollerList)
  /\ pc' = "done"
  /\ UNCHANGED <<pollerList, pollerListInitialized, newEvent, listItem, queue,
                 waitLog, processLog, visitLog, pollLog, lastLifecycle,
                 assertLine>>
  /\ Frame

\* TbxMbEventTask returns to the host loop, which calls it again: the locals
\* are gone, the statics stay, and the record of the invocation's calls is
\* closed.
TaskReturn ==
  /\ pc = "done"
  /\ pc' = "idle"
  /\ newEvent' = ZeroEvent
  /\ listItem' = NULL
  /\ waitLog' = <<>>
  /\ processLog' = <<>>
  /\ visitLog' = <<>>
  /\ pollLog' = <<>>
  /\ entryList' = pollerList
  /\ UNCHANGED <<pollerList, pollerListInitialized, waitTimeoutMS, queue,
                 lastLifecycle, assertLine, posted>>

\* One step of an invocation of TbxMbEventTask that handles no event with a
\* NULL context.
TaskWellFormed ==
  \/ InitSkip
  \/ InitCreate
  \/ InitCreateFails
  \/ EventWait
  \/ RouteStart
  \/ RouteStartFails
  \/ RouteStop
  \/ RouteDefault
  \/ SweepStep
  \/ AdaptTimeout
  \/ TaskReturn

\* One step of an invocation of TbxMbEventTask.
Task ==
  \/ TaskWellFormed
  \/ RouteNullContext
  \/ SweepOn

Next ==
  \/ \E e \in Events : Post(e)
  \/ Task

Spec == Init /\ [][Next]_vars

\* The host loop calls TbxMbEventTask forever and every call it makes
\* returns: a step of the task that can be taken is taken. Nothing is assumed
\* of the producers.
FairSpec == Spec /\ WF_vars(Task)

(* ----------------------- notions the claims use ------------------------ *)

\* Number of entries of seq that equal x.
Count(seq, x) == Cardinality({i \in 1..Len(seq) : seq[i] = x})

\* The poll registry: the handles in pollerList, in insertion order (none
\* when the list was never created).
Registry == IF pollerList.null THEN <<>> ELSE pollerList.items

\* The registry as the invocation found it.
EntryRegistry == IF entryList.null THEN <<>> ELSE entryList.items

InRegistry(c) == Count(Registry, c) > 0

\* The wait primitive delivered an event in this invocation.
Fetched == waitLog /= <<>> /\ waitLog[1].result

\* The event it delivered.
FetchedEvent == waitLog[1].event

\* The routing step of this invocation is over.
Routed == pc \in {"sweep", "done", "halted"} /\ Fetched

LifecycleIds == {"START_POLLING", "STOP_POLLING"}

(* ------------------------------- claims -------------------------------- *)

\* C1: after each invocation a handle is in the poll registry if and only if
\* the most recent lifecycle event (StartPolling or StopPolling) routed for
\* it was StartPolling; a handle for which none was routed is absent.
C1_PresentIffLastLifecycleIsStart ==
  pc = "done" =>
    \A c \in Contexts : InRegistry(c) <=> lastLifecycle[c] = "start"

\* C2: each handle appears at most once in the poll registry, and so its
\* poll function is called at most once per sweep.
C2_AtMostOneEntryPerHandle ==
  \A c \in Contexts : Count(Registry, c) <= 1 /\ Count(pollLog, c) <= 1

\* C3: routing StopPolling for a handle that is not in the poll registry
\* leaves the registry (contents and order) as it was and raises no error.
C3_StopOfAbsentHandleIsNoOp ==
  ( /\ Routed
    /\ FetchedEvent.id = "STOP_POLLING"
    /\ FetchedEvent.context \in Contexts
    /\ Count(EntryRegistry, FetchedEvent.context) = 0 )
  => /\ Registry = EntryRegistry
     /\ pc /= "halted"
     /\ assertLine = 0

\* Witness of C3: an invocation that routed StopPolling for an absent handle
\* while two other entries were registered has reached its end.
C3_Witness ==
  /\ pc = "done"
  /\ Fetched
  /\ FetchedEvent.id = "STOP_POLLING"
  /\ FetchedEvent.context \in Contexts
  /\ Count(EntryRegistry, FetchedEvent.context) = 0
  /\ Len(EntryRegistry) = 2
  /\ EntryRegistry[1] /= EntryRegistry[2]
  /\ Registry = EntryRegistry

\* The timeout the claim C4 names for a registry.
TimeoutFor(registry) ==
  IF registry /= <<>> THEN shortWaitTimeoutMs ELSE defaultWaitTimeoutMs

\* C4: at the end of every invocation the wait timeout is 1 ms if the poll
\* registry is non-empty and 5000 ms if it is empty, whatever was or was not
\* delivered; and that value is what the wait primitive of the next
\* invocation is called with.
C4_TimeoutFollowsOccupancy ==
  /\ pc = "done" => waitTimeoutMS = TimeoutFor(Registry)
  /\ \A i \in 1..Len(waitLog) : waitLog[i].timeoutMs = TimeoutFor(EntryRegistry)

\* Witness of C4: an invocation that found one entry registered was called
\* with the short timeout, got no event, and ends with the short timeout.
C4_Witness ==
  /\ pc = "done"
  /\ Len(waitLog) = 1
  /\ ~waitLog[1].result
  /\ waitLog[1].timeoutMs = shortWaitTimeoutMs
  /\ Len(Registry) = 1
  /\ waitTimeoutMS = shortWaitTimeoutMs

\* C5: when the fetched event is neither StartPolling nor StopPolling and
\* its context is non-null with a non-null process function, that process
\* function is called exactly once in the invocation, with the fetched event,
\* and no other process function is called.
C5_ProcessEventDeliveredOnce ==
  /\ ( /\ Routed
       /\ FetchedEvent.id \notin LifecycleIds
       /\ HasProcessFcn(FetchedEvent.context) )
     => processLog = <<[ctx |-> FetchedEvent.context, event |-> FetchedEvent]>>
  /\ pc \in {"idle", "wait", "route"} => processLog = <<>>

\* Witness of C5: an invocation that delivered a PDU_TRANSMITTED event to
\* context 1 while context 3 was polled has reached its end.
C5_Witness ==
  /\ pc = "done"
  /\ Fetched
  /\ FetchedEvent = [id |-> "PDU_TRANSMITTED", context |-> 1]
  /\ processLog = <<[ctx |-> 1, event |-> FetchedEvent]>>
  /\ pollLog = <<3>>

\* seq is a prefix of full.
IsPrefix(seq, full) ==
  Len(seq) <= Len(full) /\ \A i \in 1..Len(seq) : seq[i] = full[i]

\* C6: the sweep visits the registry entries in insertion order, front to
\* back, calls the poll function of each entry that has one exactly once with
\* the entry's own handle, and passes over the entries that have none.
C6_SweepVisitsEachEntryOnce ==
  /\ IsPrefix(visitLog, Registry)
  /\ pollLog = SelectSeq(visitLog, HasPollFcn)
  /\ pc = "done" => visitLog = Registry

\* C8: every invocation calls the wait primitive exactly once, routes at
\* most one event (so calls at most one process function) and performs
\* exactly one full sweep before it returns, also with several events
\* pending.
C8_OneWaitOneEventOneSweep ==
  /\ Len(waitLog) <= 1
  /\ Len(processLog) <= 1
  /\ Len(visitLog) <= Len(Registry)
  /\ pc = "done" => Len(waitLog) = 1 /\ Len(visitLog) = Len(Registry)

\* C9 as stated: a delivered event with a null context is never fatal; it is
\* dropped (registry unchanged, no process function called) and the
\* invocation goes on with the sweep and the timeout adaptation.
C9_NullContextIsNotFatal ==
  (Routed /\ FetchedEvent.context = NULL)
  => /\ pc /= "halted"
     /\ Registry = EntryRegistry
     /\ processLog = <<>>

\* C9 as amended: a delivered event with a null context fails the assertion
\* on the context; the program halts there, before the sweep, or else the
\* event is dropped (registry unchanged, no process function called) and the
\* invocation goes on with the sweep, from the front of the registry, and
\* with the timeout adaptation, whatever the event's kind.
C9_NullContextDroppedUnlessHalted ==
  (Routed /\ FetchedEvent.context = NULL)
  => /\ Registry = EntryRegistry
     /\ processLog = <<>>
     /\ pc = "halted" => assertLine = 106 /\ visitLog = <<>>
     /\ pc /= "halted" => assertLine = 0
     /\ (pc = "sweep" /\ visitLog = <<>>)
          => listItem = TbxListGetFirstItem(pollerList)
     /\ pc = "done" => listItem = NULL /\ waitTimeoutMS = TimeoutFor(Registry)

\* Witness of C9: an invocation that fetched a StartPolling event with a null
\* context, with context 1 registered, polled context 1 and reached its end
\* with the short timeout.
C9_Witness ==
  /\ pc = "done"
  /\ Fetched
  /\ FetchedEvent = [id |-> "START_POLLING", context |-> NULL]
  /\ Registry = <<1>>
  /\ pollLog = <<1>>
  /\ waitTimeoutMS = shortWaitTimeoutMs

\* C10: when the creation of the poll registry fails on the first
\* invocation, the dispatcher stops in a fatal assertion: it never goes on,
\* in that or a later invocation, to fetch, route or sweep without a
\* registry.
C10_CreationFailureIsFatal ==
  (pollerListInitialized /\ pollerList.null) => pc = "halted"

(* ------------------- the scenario of claim C7 -------------------------- *)

\* Event identifiers that take the default branch of the switch.
ProcessIds == EventIds \ LifecycleIds

\* StartPolling{a}, two process-kind events for contexts other than a, then
\* StopPolling{a} are pending; the registry was never touched, and nothing
\* else is posted.
InitC7 ==
  /\ pollerList = [null |-> TRUE, items |-> <<>>]
  /\ pollerListInitialized = FALSE
  /\ waitTimeoutMS = defaultWaitTimeoutMs
  /\ newEvent = ZeroEvent
  /\ listItem = NULL
  /\ pc = "idle"
  /\ \E a \in Contexts :
       \E b1 \in Contexts \ {a}, b2 \in Contexts \ {a} :
         \E k1 \in ProcessIds, k2 \in ProcessIds :
           queue = << [id |-> "START_POLLING", context |-> a],
                      [id |-> k1, context |-> b1],
                      [id |-> k2, context |-> b2],
                      [id |-> "STOP_POLLING", context |-> a] >>
  /\ posted = MaxPosts
  /\ waitLog = <<>>
  /\ processLog = <<>>
  /\ visitLog = <<>>
  /\ pollLog = <<>>
  /\ lastLifecycle = [c \in Contexts |-> "none"]
  /\ entryList = [null |-> TRUE, items |-> <<>>]
  /\ assertLine = 0

\* The host loop calls TbxMbEventTask again and again; one pending event is
\* routed per invocation.
SpecC7 == InitC7 /\ [][TaskWellFormed]_vars

\* C7: in the scenario the registry is empty once StopPolling{A} was routed,
\* and A's poll function is called exactly once in each invocation in which A
\* is registered when the sweep runs, and in no other.
C7_ScenarioPollsWhileRegistered ==
  /\ pc = "done" =>
       \A c \in Contexts :
         Count(pollLog, c) = IF InRegistry(c) /\ HasPollFcn(c) THEN 1 ELSE 0
  /\ (pc = "done" /\ queue = <<>>) => Registry = <<>>

\* Witness of C7: the invocation that routed StopPolling{A}, for an A with a
\* poll function that was registered until then, has reached its end with
\* the registry empty and A not polled.
C7_Witness ==
  /\ pc = "done"
  /\ queue = <<>>
  /\ Fetched
  /\ FetchedEvent.id = "STOP_POLLING"
  /\ HasPollFcn(FetchedEvent.context)
  /\ EntryRegistry = <<FetchedEvent.context>>
  /\ Registry = <<>>
  /\ pollLog = <<>>

\* The routing step of this invocation handled StartPolling for a context
\* and the back-insert into the existing list failed: the registry has not
\* grown.
InsertFailed ==
  /\ Routed
  /\ ~pollerList.null
  /\ FetchedEvent.id = "START_POLLING"
  /\ FetchedEvent.context \in Contexts
  /\ Len(Registry) = Len(EntryRegistry)

\* C11: when the back-insert for a StartPolling event fails, the dispatcher
\* stops in a fatal assertion, without a retry; the handle is not added, and
\* the entries already registered keep their membership and order.
C11_InsertFailureIsFatal ==
  InsertFailed
  => /\ pc = "halted"
     /\ assertLine = 121
     /\ Registry = EntryRegistry

\* The invocation in progress is the first one: no invocation has returned
\* with a list yet.
FirstInvocation == entryList.null

\* C12: the wait timeout is either the short interval (1) or the default
\* interval (5000), so never negative and never outside that range; it starts
\* as the default interval, so the wait primitive of the very first
\* invocation is called with the default interval.
C12_TimeoutIsShortOrDefault ==
  /\ waitTimeoutMS \in {shortWaitTimeoutMs, defaultWaitTimeoutMs}
  /\ waitTimeoutMS >= 0
  /\ ~pollerListInitialized => waitTimeoutMS = defaultWaitTimeoutMs
  /\ FirstInvocation =>
       \A i \in 1..Len(waitLog) : waitLog[i].timeoutMs = defaultWaitTimeoutMs

\* Witness of C12: the first invocation called the wait primitive with the
\* default interval, registered a handle and ends with the short interval.
C12_Witness ==
  /\ pc = "done"
  /\ FirstInvocation
  /\ Len(waitLog) = 1
  /\ waitLog[1].timeoutMs = defaultWaitTimeoutMs
  /\ Len(Registry) = 1
  /\ waitTimeoutMS = shortWaitTimeoutMs

\* The invocation in progress has passed the lazy initialisation of lines
\* 88-97 and is at, or past, its event fetch.
PastLazyInit == pc \in {"wait", "route", "sweep", "done"}

\* C13: the poll registry is constructed exactly once, on the first
\* invocation and before the first event fetch: whenever an invocation is at
\* or past its fetch the registry exists; later invocations never re-create,
\* replace or destroy it, so up to the routing step it still holds the
\* registrations the previous invocation left.
C13_RegistryConstructedOnce ==
  /\ PastLazyInit => pollerListInitialized /\ ~pollerList.null
  /\ ~pollerListInitialized => pollerList.null
  /\ ~FirstInvocation => ~pollerList.null
  /\ (~FirstInvocation /\ pc \in {"wait", "route"}) => pollerList = entryList

\* The wait primitive of this invocation returned without an event.
TimedOut == waitLog /= <<>> /\ ~waitLog[1].result

\* C14: when the wait primitive returns no event, the invocation routes
\* nothing (the registry is as at entry, no process hook is called and no
\* assertion stops it), and still sweeps and adapts the timeout: the sweep
\* goes through the registry in order, and at the end of the invocation every
\* registered handle with a poll hook has been polled exactly once, a handle
\* without one not at all, and the timeout follows the occupancy.
C14_TimeoutStillSweeps ==
  TimedOut
  => /\ pc \in {"sweep", "done"}
     /\ Registry = EntryRegistry
     /\ processLog = <<>>
     /\ IsPrefix(visitLog, Registry)
     /\ pollLog = SelectSeq(visitLog, HasPollFcn)
     /\ pc = "done"
        => /\ visitLog = Registry
           /\ \A c \in Contexts :
                Count(pollLog, c) =
                  (IF InRegistry(c) /\ HasPollFcn(c) THEN 1 ELSE 0)
           /\ waitTimeoutMS = TimeoutFor(Registry)

\* Witness of C14: an invocation that got no event has ended after polling
\* the one hook-bearing handle of a two-entry registry.
C14_Witness ==
  /\ TimedOut
  /\ pc = "done"
  /\ Len(Registry) = 2
  /\ Len(pollLog) = 1
  /\ waitTimeoutMS = shortWaitTimeoutMs

\* The routing step of this invocation handled a process-kind event whose
\* context is not NULL and has no process function.
RoutedWithoutProcessFcn ==
  /\ Routed
  /\ FetchedEvent.id \in ProcessIds
  /\ FetchedEvent.context \in Contexts
  /\ ~HasProcessFcn(FetchedEvent.context)

\* C15: a process-kind event whose non-NULL context has no process function
\* is discarded silently: no process function is called, no assertion
\* fails, the registry is as at entry, and the invocation goes on with the
\* sweep over the whole registry and the adaptation of the timeout.
C15_NoProcessFcnDiscards ==
  RoutedWithoutProcessFcn
  => /\ processLog = <<>>
     /\ pc \in {"sweep", "done"}
     /\ assertLine = 0
     /\ Registry = EntryRegistry
     /\ IsPrefix(visitLog, Registry)
     /\ pollLog = SelectSeq(visitLog, HasPollFcn)
     /\ pc = "done"
        => /\ visitLog = Registry
           /\ waitTimeoutMS = TimeoutFor(Registry)

\* Witness of C15: an invocation that fetched such an event has ended after
\* sweeping a registry with a polled handle.
C15_Witness ==
  /\ RoutedWithoutProcessFcn
  /\ pc = "done"
  /\ Registry /= <<>>
  /\ pollLog /= <<>>
  /\ waitTimeoutMS = shortWaitTimeoutMs

\* A registry without each entry that equals the handle c.
Without(registry, c) == SelectSeq(registry, LAMBDA x : x /= c)

\* What the routing step of the invocation in progress may have made of the
\* registry it found at entry.
RegistryAfterRouting ==
  IF Routed /\ FetchedEvent.context \in Contexts
  THEN IF FetchedEvent.id = "START_POLLING"
       THEN {Append(EntryRegistry, FetchedEvent.context), EntryRegistry}
       ELSE IF FetchedEvent.id = "STOP_POLLING"
       THEN {Without(EntryRegistry, FetchedEvent.context)}
       ELSE {EntryRegistry}
  ELSE {EntryRegistry}

\* Up to its routing step an invocation has the registry it found at entry;
\* after it, the registry is that of the entry with the one change of the
\* routed lifecycle event, or with no change at all.
RegistryChangesOnlyInRouting ==
  /\ pc \in {"idle", "wait", "route"} => Registry = EntryRegistry
  /\ pc \in {"sweep", "done", "halted"} => Registry \in RegistryAfterRouting

\* C16: the registry changes only in the routing step and only for
\* StartPolling (the handle is added at the back) and StopPolling (the handle
\* is removed); a process-kind event, the sweep and the adaptation of the
\* timeout leave contents and order as they are, so no step of the sweep or
\* after it changes the registry or its size.
C16_RegistryChangesOnlyInRouting ==
  /\ []RegistryChangesOnlyInRouting
  /\ [][(pc \in {"sweep", "done"}) => (pollerList' = pollerList)]_vars

\* Witness of C16: an invocation that routed StartPolling has ended with the
\* handle behind the entries that were there, all of them swept.
C16_Witness ==
  /\ Routed
  /\ pc = "done"
  /\ FetchedEvent.id = "START_POLLING"
  /\ EntryRegistry /= <<>>
  /\ Registry = Append(EntryRegistry, FetchedEvent.context)
  /\ visitLog = Registry

\* The poll function of the handle c has been called in this invocation.
Polled(c) == Count(pollLog, c) > 0

\* C17: the event is routed before the sweep, so at the end of an invocation
\* the poll function of a handle has been called if and only if the handle
\* (with a poll function) is in the registry the routing left; a handle whose
\* StartPolling was routed in the invocation has been polled in it, and a
\* handle whose last routed lifecycle event is StopPolling is not polled, in
\* that invocation or a later one.
C17_PolledIffRegisteredAfterRouting ==
  /\ pc = "done"
     => \A c \in Contexts : Polled(c) <=> (InRegistry(c) /\ HasPollFcn(c))
  /\ (/\ pc = "done"
      /\ Routed
      /\ FetchedEvent.id = "START_POLLING"
      /\ HasPollFcn(FetchedEvent.context))
     => Polled(FetchedEvent.context)
  /\ \A c \in Contexts :
       (lastLifecycle[c] = "stop" /\ pc \in {"sweep", "done"}) => ~Polled(c)

\* The number of events the wait primitive has handed to the dispatcher.
FetchedCount == posted - Len(queue)

\* C18: with producers posting at any time, the host loop calling the
\* dispatcher forever and every hook returning, every posted event is
\* eventually fetched and routed (the n-th posted event is the n-th fetched,
\* one per invocation), unless a fatal assertion has stopped the dispatcher.
C18_EveryPostedEventIsFetched ==
  \A n \in 1..MaxPosts :
    (posted >= n) ~> (FetchedCount >= n \/ pc = "halted")

====
